---- MODULE Spec2Model ----
(***************************************************************************)
(* Exact single-pattern string matching (main.py): brute_force_matcher,    *)
(* KMP_matcher with _longest_prefix_suffix, and Boyer_Moore_matcher with   *)
(* _bad_character_heuristic and _good_suffix_heuristic.  The three         *)
(* matchers are called one after the other on the same (text, pattern)     *)
(* pair, as main() does; each loop iteration of a matcher is one step.     *)
(* Python lists are 0-based and accept negative indices (index -k reads    *)
(* element len-k); an index outside -len..len-1 raises IndexError.         *)
(***************************************************************************)
EXTENDS Integers, Sequences, FiniteSets, TLC

MaxText == 5
MaxPat == 3
MaxLpsPat == 9

Alphabet == {"a", "b"}

SeqsUpTo(n) == UNION {[1..k -> Alphabet] : k \in 0..n}

VARIABLES text, pattern, pc, i, j, s, lps_array, bad_char, suffixes,
          good_suffix, bf_result, kmp_result, bm_result

vars == <<text, pattern, pc, i, j, s, lps_array, bad_char, suffixes,
          good_suffix, bf_result, kmp_result, bm_result>>

(* Outcome of a call: not finished yet, a returned integer, or a raise.    *)
Pending == [kind |-> "pending", value |-> 0]
Ret(v) == [kind |-> "return", value |-> v]
Raise == [kind |-> "IndexError", value |-> 0]

(* Python sequence indexing.                                               *)
PyValid(seq, k) == k >= -Len(seq) /\ k < Len(seq)
PyAt(seq, k) == IF k >= 0 THEN seq[k + 1] ELSE seq[Len(seq) + k + 1]
PySet(seq, k, v) == [seq EXCEPT ![k + 1] = v]
Zeros(n) == [x \in 1..n |-> 0]
Max(a, b) == IF a >= b THEN a ELSE b

(* dict.get(key, default) and dict[key] = value                            *)
DictGet(d, key, default) == IF key \in DOMAIN d THEN d[key] ELSE default
DictPut(d, key, v) == [x \in (DOMAIN d) \cup {key} |-> IF x = key THEN v ELSE d[x]]

----------------------------------------------------------------------------
(* brute_force_matcher                                                     *)

(* off-by-one variant: one candidate offset too many                        *)
NumberOfShiftsOffByOne(n, m) == n - m + 2

NumberOfShifts(n, m) == n - m + 1

RECURSIVE BFScan(_, _, _, _)
BFScan(t, p, i0, j0) ==
    IF j0 < Len(p)
    THEN IF ~PyValid(t, i0 + j0)
         THEN [raise |-> TRUE, j |-> j0]
         ELSE IF PyAt(p, j0) = PyAt(t, i0 + j0)
              THEN BFScan(t, p, i0, j0 + 1)
              ELSE [raise |-> FALSE, j |-> j0]
    ELSE [raise |-> FALSE, j |-> j0]

CallBF ==
    /\ pc = "call_bf"
    /\ i' = 0
    /\ pc' = "bf"
    /\ UNCHANGED <<text, pattern, j, s, lps_array, bad_char, suffixes,
                   good_suffix, bf_result, kmp_result, bm_result>>

BFLoop ==
    /\ pc = "bf"
    /\ i < NumberOfShifts(Len(text), Len(pattern))
    /\ LET r == BFScan(text, pattern, i, 0) IN
         /\ j' = r.j
         /\ IF r.raise
            THEN bf_result' = Raise /\ pc' = "call_kmp" /\ i' = i
            ELSE IF r.j = Len(pattern)
                 THEN bf_result' = Ret(i) /\ pc' = "call_kmp" /\ i' = i
                 ELSE bf_result' = bf_result /\ pc' = pc /\ i' = i + 1
    /\ UNCHANGED <<text, pattern, s, lps_array, bad_char, suffixes,
                   good_suffix, kmp_result, bm_result>>

BFNotFound ==
    /\ pc = "bf"
    /\ ~(i < NumberOfShifts(Len(text), Len(pattern)))
    /\ bf_result' = Ret(-1)
    /\ pc' = "call_kmp"
    /\ UNCHANGED <<text, pattern, i, j, s, lps_array, bad_char, suffixes,
                   good_suffix, kmp_result, bm_result>>

----------------------------------------------------------------------------
(* _longest_prefix_suffix and KMP_matcher                                  *)

(* variants that restart the prefix at 0 instead of following the table    *)
LPSFallbackRestart(lps, j0) == 0

KMPFallbackRestart(lps, j0) == 0

LPSFallback(lps, j0) == PyAt(lps, j0 - 1)

KMPFallback(lps, j0) == PyAt(lps, j0 - 1)

CallKMP ==
    /\ pc = "call_kmp"
    /\ i' = 1
    /\ j' = 0
    /\ lps_array' = Zeros(Len(pattern))
    /\ pc' = "lps"
    /\ UNCHANGED <<text, pattern, s, bad_char, suffixes, good_suffix,
                   bf_result, kmp_result, bm_result>>

LPSLoop ==
    /\ pc = "lps"
    /\ i < Len(pattern)
    /\ IF PyAt(pattern, i) = PyAt(pattern, j)
       THEN /\ j' = j + 1
            /\ lps_array' = PySet(lps_array, i, j + 1)
            /\ i' = i + 1
       ELSE IF j # 0
            THEN /\ j' = LPSFallback(lps_array, j)
                 /\ UNCHANGED <<lps_array, i>>
            ELSE /\ lps_array' = PySet(lps_array, i, 0)
                 /\ i' = i + 1
                 /\ j' = j
    /\ UNCHANGED <<text, pattern, pc, s, bad_char, suffixes, good_suffix,
                   bf_result, kmp_result, bm_result>>

LPSReturn ==
    /\ pc = "lps"
    /\ ~(i < Len(pattern))
    /\ i' = 0
    /\ j' = 0
    /\ pc' = "kmp"
    /\ UNCHANGED <<text, pattern, s, lps_array, bad_char, suffixes,
                   good_suffix, bf_result, kmp_result, bm_result>>

KMPLoop ==
    /\ pc = "kmp"
    /\ i < Len(text)
    /\ IF ~PyValid(pattern, j)
       THEN /\ kmp_result' = Raise
            /\ pc' = "call_bm"
            /\ UNCHANGED <<i, j>>
       ELSE LET i2 == IF PyAt(pattern, j) = PyAt(text, i) THEN i + 1
                      ELSE IF j # 0 THEN i ELSE i + 1
                j2 == IF PyAt(pattern, j) = PyAt(text, i) THEN j + 1
                      ELSE IF j # 0 THEN KMPFallback(lps_array, j) ELSE j
            IN /\ i' = i2
               /\ j' = j2
               /\ IF j2 = Len(pattern)
                  THEN kmp_result' = Ret(i2 - j2) /\ pc' = "call_bm"
                  ELSE kmp_result' = kmp_result /\ pc' = pc
    /\ UNCHANGED <<text, pattern, s, lps_array, bad_char, suffixes,
                   good_suffix, bf_result, bm_result>>

KMPNotFound ==
    /\ pc = "kmp"
    /\ ~(i < Len(text))
    /\ kmp_result' = Ret(-1)
    /\ pc' = "call_bm"
    /\ UNCHANGED <<text, pattern, i, j, s, lps_array, bad_char, suffixes,
                   good_suffix, bf_result, bm_result>>

----------------------------------------------------------------------------
(* _bad_character_heuristic, _good_suffix_heuristic, Boyer_Moore_matcher   *)

RECURSIVE BadCharFrom(_, _, _)
BadCharFrom(p, k, d) ==
    IF k < Len(p) THEN BadCharFrom(p, k + 1, DictPut(d, PyAt(p, k), k)) ELSE d

BadCharacterHeuristic(p) == BadCharFrom(p, 0, <<>>)

(* index of the symbol pattern[j] is compared with in the first pass       *)
SuffixCompareIndex(m, i0, j0) == j0 - m + i0 + 1

RECURSIVE SuffixScan(_, _, _)
SuffixScan(p, i0, j0) ==
    IF j0 >= 0 /\ PyAt(p, j0) = PyAt(p, SuffixCompareIndex(Len(p), i0, j0))
    THEN SuffixScan(p, i0, j0 - 1)
    ELSE j0

RECURSIVE SuffixesFrom(_, _, _)
SuffixesFrom(p, i0, suf) ==
    IF i0 >= 0
    THEN SuffixesFrom(p, i0 - 1,
                      PySet(suf, Len(p) - i0 - 1, i0 - SuffixScan(p, i0, i0)))
    ELSE suf

Suffixes(p) == SuffixesFrom(p, Len(p) - 1, Zeros(Len(p)))

RECURSIVE BordersFrom(_, _, _, _)
BordersFrom(m, suf, i0, borders) ==
    IF i0 < m
    THEN BordersFrom(m, suf, i0 + 1, PySet(borders, m - PyAt(suf, i0), i0))
    ELSE borders

GoodSuffixHeuristic(p) == BordersFrom(Len(p), Suffixes(p), 0, Zeros(Len(p) + 1))

RECURSIVE BMScanFrom(_, _, _, _)
BMScanFrom(t, p, s0, j0) ==
    IF j0 >= 0
    THEN IF ~PyValid(t, s0 + j0)
         THEN [raise |-> TRUE, j |-> j0]
         ELSE IF PyAt(p, j0) = PyAt(t, s0 + j0)
              THEN BMScanFrom(t, p, s0, j0 - 1)
              ELSE [raise |-> FALSE, j |-> j0]
    ELSE [raise |-> FALSE, j |-> j0]

BcShift(t, bc, s0, j0) == j0 - DictGet(bc, PyAt(t, s0 + j0), -1)
GsShift(gs, j0) == j0 - PyAt(gs, j0 + 1)

CallBM ==
    /\ pc = "call_bm"
    /\ IF Len(pattern) = 0
       THEN /\ bm_result' = Ret(0)
            /\ pc' = "done"
            /\ UNCHANGED <<bad_char, suffixes, good_suffix, s>>
       ELSE /\ bad_char' = BadCharacterHeuristic(pattern)
            /\ suffixes' = Suffixes(pattern)
            /\ good_suffix' = GoodSuffixHeuristic(pattern)
            /\ s' = 0
            /\ pc' = "bm_scan"
            /\ bm_result' = bm_result
    /\ UNCHANGED <<text, pattern, i, j, lps_array, bf_result, kmp_result>>

BMScan ==
    /\ pc = "bm_scan"
    /\ s <= Len(text) - Len(pattern)
    /\ LET r == BMScanFrom(text, pattern, s, Len(pattern) - 1) IN
         /\ j' = r.j
         /\ IF r.raise
            THEN bm_result' = Raise /\ pc' = "done"
            ELSE IF r.j < 0
                 THEN bm_result' = Ret(s) /\ pc' = "done"
                 ELSE bm_result' = bm_result /\ pc' = "bm_shift"
    /\ UNCHANGED <<text, pattern, i, s, lps_array, bad_char, suffixes,
                   good_suffix, bf_result, kmp_result>>

BMShift ==
    /\ pc = "bm_shift"
    /\ s' = s + Max(BcShift(text, bad_char, s, j), GsShift(good_suffix, j))
    /\ pc' = "bm_scan"
    /\ UNCHANGED <<text, pattern, i, j, lps_array, bad_char, suffixes,
                   good_suffix, bf_result, kmp_result, bm_result>>

BMNotFound ==
    /\ pc = "bm_scan"
    /\ ~(s <= Len(text) - Len(pattern))
    /\ bm_result' = Ret(-1)
    /\ pc' = "done"
    /\ UNCHANGED <<text, pattern, i, j, s, lps_array, bad_char, suffixes,
                   good_suffix, bf_result, kmp_result>>

----------------------------------------------------------------------------

Locals ==
    /\ i = 0 /\ j = 0 /\ s = 0
    /\ lps_array = <<>> /\ bad_char = <<>> /\ suffixes = <<>>
    /\ good_suffix = <<>>
    /\ bf_result = Pending /\ kmp_result = Pending /\ bm_result = Pending

Init ==
    /\ text \in SeqsUpTo(MaxText)
    /\ pattern \in SeqsUpTo(MaxPat)
    /\ pc = "call_bf"
    /\ Locals

Next ==
    \/ CallBF \/ BFLoop \/ BFNotFound
    \/ CallKMP \/ LPSLoop \/ LPSReturn \/ KMPLoop \/ KMPNotFound
    \/ CallBM \/ BMScan \/ BMShift \/ BMNotFound

Spec == Init /\ [][Next]_vars

FairSpec == Spec /\ WF_vars(Next)

(* _longest_prefix_suffix on its own, on longer patterns.                  *)
InitLPS ==
    /\ text = <<>>
    /\ pattern \in SeqsUpTo(MaxLpsPat)
    /\ pc = "call_kmp"
    /\ Locals

NextLPS == CallKMP \/ LPSLoop \/ LPSReturn

SpecLPS == InitLPS /\ [][NextLPS]_vars /\ WF_vars(NextLPS)

----------------------------------------------------------------------------
(* Reference definitions the properties are stated against.                *)

OccursAt(t, p, k) ==
    /\ k \in 0..(Len(t) - Len(p))
    /\ \A x \in 1..Len(p) : t[k + x] = p[x]

FirstOccurrence(t, p) ==
    IF \E k \in 0..Len(t) : OccursAt(t, p, k)
    THEN CHOOSE k \in 0..Len(t) :
             /\ OccursAt(t, p, k)
             /\ \A k2 \in 0..Len(t) : OccursAt(t, p, k2) => k <= k2
    ELSE -1

(* longest proper prefix of p[1..k] that is also a suffix of it            *)
IsBorder(p, k, l) == \A x \in 1..l : p[x] = p[k - l + x]

LongestBorder(p, k) ==
    CHOOSE l \in 0..(k - 1) :
        /\ IsBorder(p, k, l)
        /\ \A l2 \in 0..(k - 1) : IsBorder(p, k, l2) => l2 <= l

LPSDefinition(p) == [k \in 1..Len(p) |-> LongestBorder(p, k)]

(* longest suffix of p[0..=i0] that is a suffix of p (0-based i0)          *)
IsCommonSuffix(p, i0, l) == \A x \in 1..l : p[i0 + 1 - l + x] = p[Len(p) - l + x]

LongestCommonSuffix(p, i0) ==
    CHOOSE l \in 0..(i0 + 1) :
        /\ IsCommonSuffix(p, i0, l)
        /\ \A l2 \in 0..(i0 + 1) : IsCommonSuffix(p, i0, l2) => l2 <= l

Results == {bf_result, kmp_result, bm_result}

----------------------------------------------------------------------------
(* C1: Agreement - on every text and pattern the three matchers return     *)
(* the same result: a matcher that has finished returned a value, and it   *)
(* is the value brute_force_matcher returned.                              *)
C1_Agreement ==
    /\ bf_result # Pending => bf_result.kind = "return"
    /\ kmp_result # Pending => kmp_result = bf_result
    /\ bm_result # Pending => bm_result = bf_result

(* C2: Leftmost match - whenever the pattern occurs in the text, each      *)
(* matcher that has finished returned the smallest offset of an            *)
(* occurrence.                                                             *)
C2_LeftmostMatch ==
    \A r \in Results :
        (r # Pending /\ FirstOccurrence(text, pattern) # -1)
            => r = Ret(FirstOccurrence(text, pattern))

(* C3: for a non-empty pattern, a value returned by Boyer_Moore_matcher    *)
(* is the index of the first occurrence, and -1 only if there is none.     *)
C3_BoyerMooreFirstOccurrence ==
    (Len(pattern) > 0 /\ bm_result.kind = "return")
        => bm_result.value = FirstOccurrence(text, pattern)

(* C4: for a non-empty pattern, KMP_matcher terminates without raising     *)
(* and returns the index of the first occurrence or -1, the same value     *)
(* brute_force_matcher returned.                                           *)
C4_KMPCorrect ==
    (pc = "call_kmp" /\ Len(pattern) > 0)
        ~> (/\ kmp_result = Ret(FirstOccurrence(text, pattern))
            /\ kmp_result = bf_result)

C4_Witness ==
    /\ Len(pattern) = 3
    /\ kmp_result = Ret(1)
    /\ bf_result = Ret(1)
    /\ PyAt(lps_array, 1) = 1

(* C5: Empty pattern - each matcher returns 0 on an empty pattern, for     *)
(* every text, without indexing into the pattern.                          *)
C5_EmptyPattern ==
    Len(pattern) = 0 => \A r \in Results : r # Pending => r = Ret(0)

(* C6: Round-trip - an offset other than -1 returned by a matcher lies in  *)
(* 0..len(text)-len(pattern) and the pattern occurs there.                 *)
C6_RoundTrip ==
    \A r \in Results :
        (r.kind = "return" /\ r.value # -1) => OccursAt(text, pattern, r.value)

(* C7: Pattern longer than text - each matcher returns -1 and raises no    *)
(* IndexError; Boyer-Moore's search loop compares nothing.                 *)
C7_PatternLongerThanText ==
    Len(pattern) > Len(text) =>
        /\ \A r \in Results : r # Pending => r = Ret(-1)
        /\ pc # "bm_shift"

C7_Witness ==
    /\ Len(pattern) > Len(text)
    /\ Len(text) > 0
    /\ pc = "done"
    /\ Results = {Ret(-1)}

(* C8: at every Boyer-Moore mismatch the shift max(bc_shift, gs_shift) is  *)
(* at least 1 and the alignment s is in 0..n-m.                            *)
C8_ShiftPositive ==
    pc = "bm_shift" =>
        /\ Max(BcShift(text, bad_char, s, j), GsShift(good_suffix, j)) >= 1
        /\ s \in 0..(Len(text) - Len(pattern))

(* C9: _longest_prefix_suffix terminates and returns an array of length m  *)
(* whose entry i is the length of the longest proper prefix of             *)
(* pattern[0..=i] that is also a suffix of it.                             *)
C9_LPSCorrect ==
    (pc = "call_kmp") ~> (pc = "kmp" /\ lps_array = LPSDefinition(pattern))

C9_Witness ==
    /\ pc = "kmp"
    /\ pattern = <<"a", "a", "b", "a", "a", "b", "a", "a", "a">>
    /\ lps_array = <<0, 1, 0, 1, 2, 3, 4, 5, 2>>

(* C10: the first pass of _good_suffix_heuristic compares only pattern     *)
(* positions inside the pattern (no index raises) and leaves               *)
(* suffixes[m-i-1] equal to the length of the longest suffix of            *)
(* pattern[0..=i] that is a suffix of the pattern.                         *)
C10_SuffixLengths ==
    (pc \in {"bm_scan", "bm_shift", "done"} /\ Len(pattern) > 0) =>
        \A i0 \in 0..(Len(pattern) - 1) :
            /\ \A j0 \in Max(SuffixScan(pattern, i0, i0), 0)..i0 :
                   PyValid(pattern, SuffixCompareIndex(Len(pattern), i0, j0))
            /\ PyAt(suffixes, Len(pattern) - i0 - 1) = LongestCommonSuffix(pattern, i0)

====
